---- MODULE Spec2Model ----
(***************************************************************************)
(* Kanerva's Sparse Distributed Memory as implemented by class KanervaSDM  *)
(* in KanervaSDM.py: one store object with its construction, write, read   *)
(* and erase_memory operations.                                            *)
(*                                                                         *)
(* Conventions.                                                            *)
(*  - A numpy array of one axis is a record [dtype, data]; data is a       *)
(*    tuple, so its shape is <<Len(data)>>.  Indices run from 1 here and   *)
(*    from 0 in Python.                                                    *)
(*  - A matrix is a tuple of rows.                                         *)
(*  - A call that raises leaves outcome "ValueError" in `last` together    *)
(*    with the vector and the check that raised.                           *)
(*  - `last`, `log`, `fresh` and `created` are history variables: they     *)
(*    record what was called, they are never read by the operations.       *)
(***************************************************************************)
EXTENDS Integers, Sequences, FiniteSets, Bags

\* ------------------------------------------------------------------ bounds
\* Largest address_dimension (N) a constructor call is given.
MaxN == 2
\* Largest memory_dimension (U) a constructor call is given.
MaxU == 2
\* Largest num_locations (M) a constructor call is given.
MaxM == 2
\* Largest activation_threshold (H) a constructor call is given.
MaxH == 1
\* Successful writes between two erases (caps memory_count).
MaxWrites == 2

\* ------------------------------------------------------------------ state
VARIABLES
    constructed,            \* TRUE once __init__ has returned normally
    address_dimension,      \* self.address_dimension   (N)
    memory_dimension,       \* self.memory_dimension    (U)
    num_locations,          \* self.num_locations       (M)
    activation_threshold,   \* self.activation_threshold (H)
    address_matrix,         \* self.address_matrix      (A), M x N bits
    memory_matrix,          \* self.memory_matrix       (C), M x U
    memory_count,           \* self.memory_count        (T)
    last,                   \* history: the last call, its arguments and outcome
    log,                    \* history: bag of <<address, memory>> data written
                            \*   successfully since construction or the last erase
    fresh,                  \* history: no write has succeeded since construction
    created                 \* history: the address table made by __init__

store == <<address_dimension, memory_dimension, num_locations,
           activation_threshold, address_matrix, memory_matrix, memory_count>>
vars == <<constructed, address_dimension, memory_dimension, num_locations,
          activation_threshold, address_matrix, memory_matrix, memory_count,
          last, log, fresh, created>>

\* ----------------------------------------------------------------- values
\* Element types of the vectors a caller passes as `memory`: int8 is what
\* read returns at line 155, uint8 what it returns at line 152.
DTypes == {"int8", "uint8"}
\* An entry outside {0, 1}; it stands for every non-binary value.
NonBinary == 2

NoArray == [dtype |-> "none", data |-> <<>>]
NoError == <<>>

NDArray(dtype, data) == [dtype |-> dtype, data |-> data]

\* The bit vectors of length n.
BitVectors(n) == [1..n -> {0, 1}]

\* The vectors of length n with one non-binary entry, at any position.
NonBinaryVectors(n) ==
    { [k \in 1..n |-> IF k = p THEN NonBinary ELSE 0] : p \in 1..n }

\* The vectors a caller may pass, of every length from 1 to maxlen: the bit
\* vectors in each element type of dtypes, and the non-binary ones in one.
Vectors(maxlen, dtypes) ==
    UNION { { NDArray(d, v) : d \in dtypes, v \in BitVectors(n) }
            \cup { NDArray("int8", v) : v \in NonBinaryVectors(n) } : n \in 1..maxlen }

\* The element type of an address changes nothing: it is only compared.
AddressInputs == Vectors(MaxN, {"int8"})
MemoryInputs == Vectors(MaxU, DTypes)

\* np.zeros((rows, cols))
Zeros(rows, cols) == [i \in 1..rows |-> [j \in 1..cols |-> 0]]

\* The record of a call kept in `last`.
Call(op, outcome, error, args, address, memory, ret) ==
    [op |-> op, outcome |-> outcome, error |-> error, args |-> args,
     address |-> address, memory |-> memory, ret |-> ret]

\* ------------------------------------------------------------ construction
Init ==
    /\ constructed = FALSE
    /\ address_dimension = 0
    /\ memory_dimension = 0
    /\ num_locations = 0
    /\ activation_threshold = 0
    /\ address_matrix = <<>>
    /\ memory_matrix = <<>>
    /\ memory_count = 0
    /\ last = Call("none", "ok", NoError, <<>>, NoArray, NoArray, NoArray)
    /\ log = EmptyBag
    /\ fresh = FALSE
    /\ created = <<>>

\* InvalidConfiguration as the docstring words it ("if any dimension or
\* threshold is non-positive"): a threshold of 0 is refused too.
InvalidConfigurationNonPositive(N, U, M, H) ==
    \/ N <= 0 \/ U <= 0 \/ M <= 0
    \/ H <= 0

\* Lines 45-48: the two checks of the constructor's arguments.
InvalidConfiguration(N, U, M, H) ==
    \/ N <= 0 \/ U <= 0 \/ M <= 0
    \/ H < 0

\* KanervaSDM(N, U, M, H, random_seed).  rng.integers(0, 2, size=(M, N)) is a
\* function of the seed this model does not compute: the seed is represented
\* by the table A it yields, any M x N table of bits.
__init__(N, U, M, H, A) ==
    /\ ~constructed
    /\ IF InvalidConfiguration(N, U, M, H)
       THEN /\ last' = Call("__init__", "ValueError", NoError, <<N, U, M, H>>,
                            NoArray, NoArray, NoArray)
            /\ UNCHANGED <<constructed, store, log, fresh, created>>
       ELSE /\ constructed' = TRUE
            /\ address_dimension' = N
            /\ memory_dimension' = U
            /\ num_locations' = M
            /\ activation_threshold' = H
            /\ address_matrix' = A
            /\ memory_matrix' = Zeros(M, U)
            /\ memory_count' = 0
            /\ last' = Call("__init__", "ok", NoError, <<N, U, M, H>>,
                            NoArray, NoArray, NoArray)
            /\ log' = EmptyBag
            /\ fresh' = TRUE
            /\ created' = A

\* ------------------------------------------------------------- activation
\* Line 82: np.count_nonzero(self.address_matrix != address, axis=1), for the
\* row of hard location i.
HammingDistance(i, address) ==
    Cardinality({k \in 1..address_dimension :
                   address_matrix[i][k] # address.data[k]})

\* Lines 82-83: the indices of the hard locations within the threshold.
_get_activated_locations(address) ==
    {i \in 1..num_locations :
       HammingDistance(i, address) <= activation_threshold}

\* -------------------------------------------------------------- validation
\* Line 109: np.isin(vector, [0, 1]) at one entry.
IsBinaryEntry(v) == v \in {0, 1}

\* _validate__vector without the check of line 109: only the shape is checked.
_validate__vector_shape_only(vector, vector_name) ==
    LET expected_dimension ==
            IF vector_name = "address" THEN address_dimension
            ELSE memory_dimension
    IN  IF Len(vector.data) # expected_dimension
        THEN <<vector_name, "shape">>
        ELSE NoError

\* Lines 98-110: NoError when the vector passes, else what was raised, as
\* <<vector_name, "shape">> (line 104) or <<vector_name, "binary">> (line 110).
_validate__vector(vector, vector_name) ==
    LET expected_dimension ==
            IF vector_name = "address" THEN address_dimension
            ELSE memory_dimension
    IN  IF Len(vector.data) # expected_dimension
        THEN <<vector_name, "shape">>
        ELSE IF ~(\A k \in 1..Len(vector.data) : IsBinaryEntry(vector.data[k]))
        THEN <<vector_name, "binary">>
        ELSE NoError

\* ------------------------------------------------------------------- write
\* Arithmetic of a numpy integer array keeps the array's element type: the
\* result of an operation with a Python int is reduced to that type's range.
Wrap(v, dtype) ==
    IF dtype = "uint8" THEN v % 256
    ELSE ((v + 128) % 256) - 128

\* Line 129: polar_memory = 2 * memory - 1, in the element type of memory.
PolarMemory(memory) ==
    [j \in 1..Len(memory.data) |->
        Wrap(Wrap(2 * memory.data[j], memory.dtype) - 1, memory.dtype)]

\* Line 130: self.memory_matrix[activated_locations] += polar_memory.  The
\* float32 table holds every integer of magnitude below 2^24 exactly, far
\* above what MaxWrites additions reach.
Accumulate(matrix, activated_locations, polar_memory) ==
    [i \in 1..num_locations |->
        IF i \in activated_locations
        THEN [j \in 1..memory_dimension |-> matrix[i][j] + polar_memory[j]]
        ELSE matrix[i]]

\* CountAfterWrite counting only the writes that reached a hard location.
CountAfterStoringWrite(count, activated_locations) ==
    IF activated_locations = {} THEN count ELSE count + 1

\* Line 131: self.memory_count += 1.
CountAfterWrite(count, activated_locations) == count + 1

\* The memory arguments tried with an address: line 124 raises before line 125
\* looks at the memory, so one memory stands for all of them when the address
\* is rejected.
MemoryArguments(address) ==
    IF _validate__vector(address, "address") # NoError
    THEN {NDArray("int8", <<>>)}
    ELSE MemoryInputs

\* A call that raised: nothing but the record of the call changes.
Raise(op, error) ==
    /\ last' = Call(op, "ValueError", error, <<>>, NoArray, NoArray, NoArray)
    /\ UNCHANGED <<constructed, store, log, fresh, created>>

\* Lines 124-131.
write(address, memory) ==
    /\ constructed
    /\ LET address_error == _validate__vector(address, "address")
           memory_error == _validate__vector(memory, "memory")
       IN  IF address_error # NoError THEN Raise("write", address_error)
           ELSE IF memory_error # NoError THEN Raise("write", memory_error)
           ELSE LET activated_locations == _get_activated_locations(address)
                    polar_memory == PolarMemory(memory)
                IN  /\ memory_count < MaxWrites
                    /\ memory_matrix' =
                         Accumulate(memory_matrix, activated_locations, polar_memory)
                    /\ memory_count' =
                         CountAfterWrite(memory_count, activated_locations)
                    /\ last' = Call("write", "ok", NoError, <<>>,
                                    address, memory, NoArray)
                    /\ log' = log (+) SetToBag({<<address.data, memory.data>>})
                    /\ fresh' = FALSE
                    /\ UNCHANGED <<constructed, address_dimension, memory_dimension,
                                   num_locations, activation_threshold,
                                   address_matrix, created>>

\* -------------------------------------------------------------------- read
\* Line 154: self.memory_matrix[activated_locations].sum(axis=0) at column j.
RECURSIVE LocationsSum(_, _)
LocationsSum(activated_locations, j) ==
    IF activated_locations = {} THEN 0
    ELSE LET i == CHOOSE i \in activated_locations : TRUE
         IN  memory_matrix[i][j] + LocationsSum(activated_locations \ {i}, j)

\* Threshold as the comment of line 155 words it ("greater than zero").
ThresholdStrict(s) == IF s > 0 THEN 1 ELSE 0

\* Line 155: (locations_sum >= 0).astype(np.int8) at one entry.
Threshold(s) == IF s >= 0 THEN 1 ELSE 0

\* Lines 149-155: what read returns for a validated address.
Recall(address) ==
    LET activated_locations == _get_activated_locations(address)
    IN  IF Cardinality(activated_locations) = 0
        THEN NDArray("uint8", [j \in 1..memory_dimension |-> 0])
        ELSE NDArray("int8", [j \in 1..memory_dimension |->
                                Threshold(LocationsSum(activated_locations, j))])

\* Lines 147-155.
read(address) ==
    /\ constructed
    /\ LET address_error == _validate__vector(address, "address")
       IN  IF address_error # NoError THEN Raise("read", address_error)
           ELSE /\ last' = Call("read", "ok", NoError, <<>>,
                                address, NoArray, Recall(address))
                /\ UNCHANGED <<constructed, store, log, fresh, created>>

\* ------------------------------------------------------------------- erase
\* Line 162: self.memory_matrix.fill(0).
Fill(matrix, value) ==
    [i \in 1..Len(matrix) |-> [j \in 1..Len(matrix[i]) |-> value]]

\* CountAfterErase with the reset of line 163 forgotten.
CountKeptByErase(count) == count

\* Line 163: self.memory_count = 0.
CountAfterErase(count) == 0

\* Lines 162-163.
erase_memory ==
    /\ constructed
    /\ memory_matrix' = Fill(memory_matrix, 0)
    /\ memory_count' = CountAfterErase(memory_count)
    /\ last' = Call("erase_memory", "ok", NoError, <<>>, NoArray, NoArray, NoArray)
    /\ log' = EmptyBag
    /\ UNCHANGED <<constructed, address_dimension, memory_dimension,
                   num_locations, activation_threshold, address_matrix,
                   fresh, created>>

\* ----------------------------------------------------------- specification
\* The tables the seeded generator can yield for valid dimensions; one
\* placeholder when the constructor raises before reaching the generator.
Tables(N, U, M, H) ==
    IF InvalidConfiguration(N, U, M, H) THEN {<<>>}
    ELSE [1..M -> [1..N -> {0, 1}]]

Next ==
    \/ \E N \in -1..MaxN, U \in -1..MaxU, M \in -1..MaxM, H \in -1..MaxH :
         \E A \in Tables(N, U, M, H) : __init__(N, U, M, H, A)
    \/ \E address \in AddressInputs :
         \E memory \in MemoryArguments(address) : write(address, memory)
    \/ \E address \in AddressInputs : read(address)
    \/ erase_memory

Spec == Init /\ [][Next]_vars

\* ------------------------------------------------- vocabulary of the claims
\* What the claims are stated with, defined from the specification's words
\* and independently of the operators above.

\* The number of positions k <= n at which u and v differ.
RECURSIVE Differences(_, _, _)
Differences(u, v, n) ==
    IF n = 0 THEN 0
    ELSE (IF u[n] = v[n] THEN 0 ELSE 1) + Differences(u, v, n - 1)

\* Hard location i is within Hamming distance H of the address data x.
Within(i, x) ==
    Differences(address_matrix[i], x, address_dimension) <= activation_threshold

\* Some hard location is activated by x.
Activates(x) == \E i \in 1..num_locations : Within(i, x)

\* s[j]: the sum of trace[i][j] over the activated locations i <= m.
RECURSIVE TraceSum(_, _, _)
TraceSum(m, x, j) ==
    IF m = 0 THEN 0
    ELSE (IF Within(m, x) THEN memory_matrix[m][j] ELSE 0) + TraceSum(m - 1, x, j)

\* v is a vector of n bits.
IsBitVector(v, n) == Len(v) = n /\ \A k \in 1..n : v[k] \in {0, 1}

\* The all-zero vector of length U.
ZeroVector == [j \in 1..memory_dimension |-> 0]

\* Every entry of the trace table is zero.
TraceIsZero ==
    \A i \in 1..num_locations : \A j \in 1..memory_dimension :
        memory_matrix[i][j] = 0

\* The sum of 2*w[j]-1 over the logged writes <<x, w>> in `entries` (each
\* counted as often as it was written) whose x is within H of location i.
RECURSIVE Superposition(_, _, _)
Superposition(entries, i, j) ==
    IF entries = {} THEN 0
    ELSE LET e == CHOOSE e \in entries : TRUE
         IN  (IF Within(i, e[1]) THEN log[e] * (2 * e[2][j] - 1) ELSE 0)
             + Superposition(entries \ {e}, i, j)

ReadReturned == constructed /\ last.op = "read" /\ last.outcome = "ok"
WriteReturned == constructed /\ last.op = "write" /\ last.outcome = "ok"

\* ------------------------------------------------------------------ claims

\* C1: read on a freshly constructed store (no write performed yet) returns
\* the all-zero vector of length U for every valid address, whether or not
\* a hard location is activated.  The code returns all ones when one is.
C1_FreshReadIsZero ==
    (ReadReturned /\ fresh) => last.ret.data = ZeroVector

\* The step is a read of x that returned, taken right after the first
\* successful write since construction or erase, which wrote at the same x,
\* and x activates a location.
ReadFollowsFirstWrite ==
    /\ WriteReturned
    /\ BagCardinality(log) = 1
    /\ last'.op = "read" /\ last'.outcome = "ok"
    /\ last'.address.data = last.address.data
    /\ Activates(last.address.data)

\* C2: on a store whose trace table is all zero, write(x, w) immediately
\* followed by read(x) returns exactly w whenever x activates a location.
\* Stated for the first write after construction or erase.
C2_SingleWriteRoundTrip ==
    [][ ReadFollowsFirstWrite => last'.ret.data = last.memory.data ]_vars

\* In support of C2: the round trip holds whenever the memory written has a
\* signed element type.
C2_SignedElementType ==
    [][ (ReadFollowsFirstWrite /\ last.memory.dtype = "int8")
        => last'.ret.data = last.memory.data ]_vars

\* C3: erase_memory() immediately followed by read(x) returns the all-zero
\* vector for every valid address x.  The code returns all ones when x
\* activates a location.
C3_ReadAfterEraseIsZero ==
    [][ (constructed /\ last.op = "erase_memory"
         /\ last'.op = "read" /\ last'.outcome = "ok")
        => last'.ret.data = ZeroVector ]_vars

WriteAddedPolarVector ==
    LET x == last'.address.data
        w == last'.memory.data
    IN  /\ memory_matrix' =
             [i \in 1..num_locations |->
                IF Within(i, x)
                THEN [j \in 1..memory_dimension |->
                        memory_matrix[i][j] + (2 * w[j] - 1)]
                ELSE memory_matrix[i]]
        /\ memory_count' = memory_count + 1

\* C5: a successful write(x, w) adds 2*w[j]-1 at each position j to the trace
\* row of every hard location within distance H of x, leaves every other row
\* unchanged and increments stored-count by exactly 1.
C5_WriteAddsPolarVector ==
    [][ (last'.op = "write" /\ last'.outcome = "ok") => WriteAddedPolarVector ]_vars

\* In support of C5: its statement holds of every write whose memory has a
\* signed element type; only an unsigned one (where 2*0-1 is 255) breaks it.
C5_SignedElementType ==
    [][ (last'.op = "write" /\ last'.outcome = "ok" /\ last'.memory.dtype = "int8")
        => WriteAddedPolarVector ]_vars

\* C6: a write or read with an address that is not a vector of N bits, and a
\* write with a memory that is not a vector of U bits, ends in an error and
\* leaves the trace table, the stored-count and the address table as they
\* were.  (A call returns normally or raises: it returns normally only with
\* valid vectors, and when it raises nothing changed.)
C6_InvalidVectorsRejected ==
    [][ (last'.op \in {"write", "read"}) =>
          /\ last'.outcome \in {"ok", "ValueError"}
          /\ last'.outcome = "ok" =>
               /\ IsBitVector(last'.address.data, address_dimension)
               /\ last'.op = "write" =>
                    IsBitVector(last'.memory.data, memory_dimension)
          /\ last'.outcome = "ValueError" =>
               /\ memory_matrix' = memory_matrix
               /\ memory_count' = memory_count
               /\ address_matrix' = address_matrix ]_vars

\* C6's case: after a successful write, a write with a valid address and a
\* non-binary memory has raised.
C6_Witness ==
    /\ constructed
    /\ last.op = "write" /\ last.outcome = "ValueError"
    /\ last.error = <<"memory", "binary">>
    /\ memory_count > 0

\* C7: erase_memory() ends with every trace entry 0 and stored-count 0 and
\* the address table the one created at construction; a second consecutive
\* erase_memory() changes nothing.
C7_EraseClearsAndIsIdempotent ==
    [][ (last'.op = "erase_memory") =>
          /\ TraceIsZero'
          /\ Len(memory_matrix') = num_locations
          /\ memory_count' = 0
          /\ address_matrix' = created
          /\ last.op = "erase_memory" => UNCHANGED store ]_vars

\* C7's case: erase_memory has run on a store that had been written.
C7_Witness ==
    /\ constructed
    /\ last.op = "erase_memory"
    /\ ~fresh
    /\ TraceIsZero /\ memory_count = 0

C9_CountIsSuccessfulWrites ==
    [][ /\ memory_count' >= 0
        /\ memory_count' = BagCardinality(log')
        /\ (last'.op = "read" \/ last'.outcome # "ok") =>
              memory_count' = memory_count ]_vars

\* C9's case: a write has failed after a write that succeeded without
\* activating any location.
C9_Witness ==
    /\ constructed
    /\ last.op = "write" /\ last.outcome = "ValueError"
    /\ memory_count = 1
    /\ TraceIsZero

\* C10: trace[i][j] is the sum of 2*w[j]-1 over the successful writes (x, w)
\* since construction or the last erase with x within distance H of location
\* i, and its magnitude never exceeds stored-count.
C10_TraceIsSuperposition ==
    constructed =>
        \A i \in 1..num_locations : \A j \in 1..memory_dimension :
            /\ memory_matrix[i][j] = Superposition(BagToSet(log), i, j)
            /\ memory_matrix[i][j] <= memory_count
            /\ -memory_matrix[i][j] <= memory_count
====
